---- MODULE Spec2Model ----
(***************************************************************************)
(* Image preprocessing for the Amharic OCR front end.                      *)
(*                                                                         *)
(* The pixel transforms of utils/imageProcessing (computeIntegralImage,    *)
(* applyAdaptiveThreshold, applyMedianFilter, the inline grayscale loop     *)
(* and the upscale rule of preprocessImage) are operators computed the way  *)
(* the code computes them, on the flat RGBA layout the code indexes:        *)
(* channel c of pixel (x, y) is data[(y*width + x)*4 + c].                  *)
(*                                                                         *)
(* Specifications:                                                         *)
(*   SpecThr   applyAdaptiveThreshold applied once and then again to its    *)
(*             own output, on bounded grayscale buffers                     *)
(*   SpecMed   applyMedianFilter on bounded grayscale buffers               *)
(*   SpecGray  the grayscale loop on bounded colour buffers                 *)
(*   SpecInt   computeIntegralImage row by row on buffers of the sizes the  *)
(*             pipeline produces, uniformly filled                          *)
(*   SpecPre   one preprocessImage call (decode, onload / onerror)          *)
(*   SpecHome  the Home component: handleFile, handleClear, performOCR      *)
(***************************************************************************)
EXTENDS Integers, Sequences, FiniteSets, TLC

VARIABLES
    mode,        \* which harness drives the state ("thr", "med", "gray", ...)
    width,       \* width of the buffer the pixel functions work on
    height,      \* height of that buffer
    data,        \* the Uint8ClampedArray: function 0..width*height*4-1 -> 0..255
    prev,        \* the buffer as it was when the last call started
    calls,       \* how many times the function under study has been applied
    windowSize,  \* argument windowSize of applyAdaptiveThreshold
    constant,    \* argument constant of applyAdaptiveThreshold
    integral,    \* the Int32Array the last applyAdaptiveThreshold call built
    win,         \* per pixel, the sum and count that call used
    outcome,     \* how the last call ended: "none", "returned" or an error name
    fill,        \* intensity of every pixel of a buffer held by its size only
    row,         \* rows of that buffer computeIntegralImage has completed
    lastCol,     \* integral[(row-1)*width + width-1], the entry written last
    pre,         \* the preprocessImage invocations, in the order they were made
    revoked,     \* the blob URLs URL.revokeObjectURL has been called on
    image,       \* Home: useState image
    preview,     \* Home: useState preview
    editableText,     \* Home: useState editableText
    useEnglish,       \* Home: useState useEnglish
    usePreprocessing, \* Home: useState usePreprocessing
    status,      \* useOCR: useState status
    progress,    \* useOCR: useState progress
    result,      \* useOCR: useState result
    confidence,  \* useOCR: useState confidence
    hf,          \* the handleFile invocations, in the order they were made
    ocr          \* per handleFile invocation, the performOCR call it made

rowVars == <<fill, row, lastCol>>

pixVars == <<width, height, data, prev, calls, windowSize, constant,
             integral, win, outcome, rowVars>>

homeVars == <<image, preview, editableText, useEnglish, usePreprocessing,
              status, progress, result, confidence, hf, ocr>>

vars == <<mode, pixVars, pre, revoked, homeVars>>

----------------------------------------------------------------------------
(* Bounds of the model *)

\* Buffers are at most MaxSide wide and MaxSide high.
MaxSide == 3

\* Up to MaxPixels pixels every assignment of Levels to the pixels is an
\* input; larger buffers (up to MaxSide x MaxSide) are inputs when they are
\* uniform or uniform but for one pixel.
MaxPixels == 4

\* Intensities the grayscale input buffers are built from.
Levels == {0, 100, 128, 200}

\* applyMedianFilter is explored on buffers at most MedMaxSide wide and high:
\* on every assignment of MedLevels when the buffer has an interior pixel and
\* at most MedFullPixels pixels, on every assignment of the two extreme levels
\* up to MedTwoPixels pixels, and on uniform-but-for-one-pixel buffers beyond.
MedMaxSide == 4

MedFullPixels == 9

MedTwoPixels == 12

MedLevels == {0, 100, 255}

\* The grayscale loop is explored on every buffer of at most GrayMaxPixels
\* pixels whose pixels are drawn from Colours.
GrayMaxPixels == 2

\* At most MaxRuns files are uploaded in one behaviour of the Home component.
MaxRuns == 2

\* A canvas of at most CanvasMaxPixels pixels is modelled with its pixels; a
\* larger one with its size only.
CanvasMaxPixels == 4

\* RGBA pixels a small canvas is filled with by drawImage.
PipeColours == {<<255, 255, 255, 255>>, <<255, 0, 0, 128>>, <<0, 0, 250, 77>>}

\* Sizes of the decoded images handed to preprocessImage.
DecodedSizes ==
    { <<1, 1>>, <<1, 2>>, <<2, 1>>, <<2, 2>>, <<100, 100>>, <<1800, 900>>,
      <<1499, 1500>>, <<1500, 1499>>, <<1500, 1500>>, <<2000, 1500>> }

\* Window sizes handed to applyAdaptiveThreshold: 1 and 3 are valid (odd,
\* positive), 0 is non-positive, 2 is even.
WindowSizes == {0, 1, 2, 3}

\* thresholdConstant values: negative, zero, positive.
Constants == {-10, 0, 10}

----------------------------------------------------------------------------
(* Arithmetic helpers *)

Max(a, b) == IF a >= b THEN a ELSE b

Min(a, b) == IF a <= b THEN a ELSE b

\* Largest value an Int32Array entry holds.
Int32Max == 2147483647

\* Storing a number into an Int32Array keeps its low 32 bits, signed (written
\* for the sums below 2^32 that one addition of two entries can produce).
ToInt32(v) ==
    IF v > Int32Max THEN (v - Int32Max) - Int32Max - 2 ELSE v

\* What an Int32Array entry holds after `entry + sum` is stored into it, for
\* an entry a and a sum b >= 0: a + b, less 2^32 when that exceeds Int32Max.
Int32Add(a, b) ==
    IF a > Int32Max - b
    THEN (a - Int32Max - 1) + (b - Int32Max - 1)
    ELSE a + b

Pixels(w, h) == 0 .. (w * h - 1)

Indices(w, h) == 0 .. (w * h * 4 - 1)

\* The empty typed array / a buffer that has not been produced.
NoData == <<>>

----------------------------------------------------------------------------
(* computeIntegralImage *)

\* The running horizontal sum `sum` of row y after column x has been added.
RECURSIVE RowSum(_, _, _, _)
RowSum(d, w, y, x) ==
    IF x < 0 THEN 0 ELSE RowSum(d, w, y, x - 1) + d[(y * w + x) * 4]

computeIntegralImage_NoRowAbove(d, w, h) ==
    [i \in Pixels(w, h) |-> ToInt32(RowSum(d, w, i \div w, i % w))]

computeIntegralImage(d, w, h) ==
    LET I[i \in Pixels(w, h)] ==
            LET y == i \div w
                x == i % w
                sum == RowSum(d, w, y, x)
            IN  IF y = 0 THEN ToInt32(sum)
                ELSE ToInt32(I[(y - 1) * w + x] + sum)
    IN  [i \in Pixels(w, h) |-> I[i]]

----------------------------------------------------------------------------
(* applyAdaptiveThreshold *)

\* Math.floor(windowSize / 2), for the window sizes >= 0 the model draws.
halfWindow(ws) == ws \div 2

WinX1(x, ws) == Max(x - halfWindow(ws), 0)

WinY1(y, ws) == Max(y - halfWindow(ws), 0)

WinX2(x, w, ws) == Min(x + halfWindow(ws), w - 1)

WinY2(y, h, ws) == Min(y + halfWindow(ws), h - 1)

WinCount_Unclamped(x, y, w, h, ws) == (2 * halfWindow(ws) + 1) * (2 * halfWindow(ws) + 1)

WinCount(x, y, w, h, ws) ==
    (WinX2(x, w, ws) - WinX1(x, ws) + 1) * (WinY2(y, h, ws) - WinY1(y, ws) + 1)

\* D + A - B - C with the corners outside the image taken as 0.
WinSum(I, x, y, w, h, ws) ==
    LET x1 == WinX1(x, ws)
        y1 == WinY1(y, ws)
        x2 == WinX2(x, w, ws)
        y2 == WinY2(y, h, ws)
        A == IF x1 > 0 /\ y1 > 0 THEN I[(y1 - 1) * w + (x1 - 1)] ELSE 0
        B == IF y1 > 0 THEN I[(y1 - 1) * w + x2] ELSE 0
        C == IF x1 > 0 THEN I[y2 * w + (x1 - 1)] ELSE 0
        D == I[y2 * w + x2]
    IN  D + A - B - C

\* value > (mean - constant) with mean = sum / count.  value, sum, count and
\* constant are integers and count > 0, so the comparison of doubles decides
\* exactly as value*count > sum - constant*count does (the gap between the two
\* sides, when they differ, is at least 1/count, far above one rounding error).
Binary_NonStrict(value, sum, count, c) ==
    IF value * count >= sum - c * count THEN 255 ELSE 0

Binary_Inverted(value, sum, count, c) ==
    IF value * count < sum - c * count THEN 255 ELSE 0

Binary(value, sum, count, c) ==
    IF value * count > sum - c * count THEN 255 ELSE 0

applyAdaptiveThreshold_KeepAlpha(d, w, h, ws, c) ==
    LET I == computeIntegralImage(d, w, h)
    IN  [k \in Indices(w, h) |->
            LET p == k \div 4
                x == p % w
                y == p \div w
            IN  IF k % 4 = 3 THEN d[k]
                ELSE Binary(d[p * 4], WinSum(I, x, y, w, h, ws),
                            WinCount(x, y, w, h, ws), c)]

\* The buffer after applyAdaptiveThreshold(data, width, height, ws, c):
\* `output` is filled from the untouched `data` and copied back by data.set.
applyAdaptiveThreshold(d, w, h, ws, c) ==
    LET I == computeIntegralImage(d, w, h)
    IN  [k \in Indices(w, h) |->
            LET p == k \div 4
                x == p % w
                y == p \div w
            IN  IF k % 4 = 3 THEN 255
                ELSE Binary(d[p * 4], WinSum(I, x, y, w, h, ws),
                            WinCount(x, y, w, h, ws), c)]

\* What the call computed for each pixel on the way.
WindowsOf(d, w, h, ws) ==
    LET I == computeIntegralImage(d, w, h)
    IN  [p \in Pixels(w, h) |->
            [sum |-> WinSum(I, p % w, p \div w, w, h, ws),
             count |-> WinCount(p % w, p \div w, w, h, ws)]]

----------------------------------------------------------------------------
(* applyMedianFilter *)

\* The pixels the two loops visit: 1 <= y < height-1 and 1 <= x < width-1.
Interior(x, y, w, h) == 1 <= x /\ x < w - 1 /\ 1 <= y /\ y < h - 1

\* The nine values pushed onto `neighbors`, in the order ky = -1..1, kx = -1..1.
Neighbors(copy, w, x, y) ==
    [n \in 1 .. 9 |->
        LET ky == ((n - 1) \div 3) - 1
            kx == ((n - 1) % 3) - 1
        IN  copy[((y + ky) * w + (x + kx)) * 4]]

\* s with v put at its place: s is ascending and stays so.
RECURSIVE InsertAsc(_, _)
InsertAsc(s, v) ==
    IF s = <<>> THEN <<v>>
    ELSE IF v <= Head(s) THEN <<v>> \o s
    ELSE <<Head(s)>> \o InsertAsc(Tail(s), v)

\* neighbors.sort((a, b) => a - b): ascending numeric order.
RECURSIVE SortAsc(_)
SortAsc(s) == IF s = <<>> THEN <<>> ELSE InsertAsc(SortAsc(Tail(s)), Head(s))

\* neighbors[4] of the sorted array (the 5th of 9).
Median(copy, w, x, y) == SortAsc(Neighbors(copy, w, x, y))[5]

\* A median filter that also filters the border, replicating edge pixels.
applyMedianFilter_EdgeReplicate(d, w, h) ==
    [k \in Indices(w, h) |->
        LET p == k \div 4
            x == p % w
            y == p \div w
            nb == [n \in 1 .. 9 |->
                     LET yy == Max(0, Min(h - 1, y + ((n - 1) \div 3) - 1))
                         xx == Max(0, Min(w - 1, x + ((n - 1) % 3) - 1))
                     IN  d[(yy * w + xx) * 4]]
        IN  IF k % 4 # 3 THEN SortAsc(nb)[5] ELSE d[k]]

\* A median filter without the copy: pixels are visited in the same order and
\* each median is taken from the buffer as the earlier pixels have left it.
RECURSIVE MedianInPlaceFrom(_, _, _, _)
MedianInPlaceFrom(d, w, h, p) ==
    IF p >= w * h THEN d
    ELSE LET x == p % w
             y == p \div w
             d2 == IF Interior(x, y, w, h)
                   THEN [k \in DOMAIN d |->
                            IF k \div 4 = p /\ k % 4 # 3 THEN Median(d, w, x, y) ELSE d[k]]
                   ELSE d
         IN  MedianInPlaceFrom(d2, w, h, p + 1)

applyMedianFilter_InPlace(d, w, h) == MedianInPlaceFrom(d, w, h, 0)

\* The buffer after applyMedianFilter(data, width, height): every read is
\* from `copy`, the buffer as it was when the call started.
applyMedianFilter(d, w, h) ==
    [k \in Indices(w, h) |->
        LET p == k \div 4
            x == p % w
            y == p \div w
        IN  IF Interior(x, y, w, h) /\ k % 4 # 3
            THEN Median(d, w, x, y)
            ELSE d[k]]

----------------------------------------------------------------------------
(* Grayscale conversion (the loop of preprocessImage) *)

\* Exact ties of the luminance (fraction .5) among Colours that the double
\* arithmetic 0.299*r + 0.587*g + 0.114*b and the round-half-to-even store
\* of Uint8ClampedArray resolve upwards: 0.299*0 + 0.587*4 + 0.114*168 is
\* 21.5 and is stored as 22, while (0,0,250) gives 28.5, stored as 28, and
\* (0,80,110) gives 59.49999999999999, stored as 59.
TieRoundsUp == {<<0, 4, 168>>}

GrayOf_Truncated(r, g, b) == (299 * r + 587 * g + 114 * b) \div 1000

\* The value data[i] holds after `data[i] = gray`: the luminance rounded to
\* the nearest integer (it never leaves 0..255).
GrayOf(r, g, b) ==
    LET n == 299 * r + 587 * g + 114 * b
        q == n \div 1000
        f == n % 1000
    IN  IF f > 500 THEN q + 1
        ELSE IF f < 500 THEN q
        ELSE IF <<r, g, b>> \in TieRoundsUp THEN q + 1 ELSE q

\* The buffer after the loop `for (i = 0; i < data.length; i += 4)`.
Grayscale(d) ==
    [k \in DOMAIN d |->
        LET i == (k \div 4) * 4
        IN  IF k % 4 = 3 THEN d[k] ELSE GrayOf(d[i], d[i + 1], d[i + 2])]

----------------------------------------------------------------------------
(* preprocessImage *)

OptionKeys == {"grayscale", "binarize", "denoise", "upscale"}

\* The options objects a caller can pass: any subset of the keys, each set
\* to true or false.
AllOptions == UNION {[K -> BOOLEAN] : K \in SUBSET OptionKeys}

DefaultConfig ==
    [grayscale |-> TRUE, binarize |-> TRUE, denoise |-> FALSE, upscale |-> TRUE]

\* { ...defaults, ...options }
Config(options) ==
    [k \in OptionKeys |-> IF k \in DOMAIN options THEN options[k] ELSE DefaultConfig[k]]

UpscaleFloor == 1500

UpscaleScale == 2

\* The arguments of the applyAdaptiveThreshold call in preprocessImage.
PipeWindowSize == 41

PipeConstant == 15

UpscaledSize_BothBelow(w, h, upscale) ==
    IF upscale /\ (w < UpscaleFloor /\ h < UpscaleFloor)
    THEN <<w * UpscaleScale, h * UpscaleScale>>
    ELSE <<w, h>>

UpscaledSize_WidthOnly(w, h, upscale) ==
    IF upscale /\ (w < UpscaleFloor \/ h < UpscaleFloor)
    THEN <<w * UpscaleScale, h>>
    ELSE <<w, h>>

\* canvas.width and canvas.height for a decoded image of w x h.
UpscaledSize(w, h, upscale) ==
    IF upscale /\ (w < UpscaleFloor \/ h < UpscaleFloor)
    THEN <<w * UpscaleScale, h * UpscaleScale>>
    ELSE <<w, h>>

\* A File object: id tells the File objects of one behaviour apart, ok is
\* whether the browser can decode it, w and h the decoded size.
ImageFile(id, sz) == [id |-> id, ok |-> TRUE, w |-> sz[1], h |-> sz[2]]

BadFile(id) == [id |-> id, ok |-> FALSE, w |-> 0, h |-> 0]

\* null, and a promise that has no value (yet).
Null == [kind |-> "null"]

NoValue == [kind |-> "none"]

\* A File passed on as it is.
FileRef(file) == [kind |-> "file", file |-> file]

\* URL.createObjectURL(file): a fresh URL each time, here named after the
\* function that made it.
BlobUrl(file, by) == [kind |-> "blob", file |-> file, by |-> by]

\* canvas.toDataURL('image/png'): the canvas as it is, encoded.
DataUrl(w, h, px) == [kind |-> "data", w |-> w, h |-> h, px |-> px]

\* The event the decoder fired: img.onerror passes the error event on.
DecodeErrorEvent(file) == [kind |-> "error", file |-> file]

Materialised(w, h) == w * h <= CanvasMaxPixels

\* What getImageData returns once drawImage has painted the (resampled)
\* image: decided by the browser, so any buffer of the canvas size.
CanvasBuffers(w, h) ==
    IF Materialised(w, h)
    THEN {[k \in Indices(w, h) |-> c[k \div 4][(k % 4) + 1]] :
              c \in [Pixels(w, h) -> PipeColours]}
    ELSE {NoData}

\* How the browser treats one onload: everything works, getContext returns
\* null, getImageData throws, or toDataURL throws.
Envs == {"ok", "noctx", "readThrows", "encodeThrows"}

Stage(name, w, h) == [stage |-> name, w |-> w, h |-> h]

\* new Promise(...) up to img.src = url: the invocation waits for the decoder.
\* read is imageData.data as getImageData returned it, px the same array
\* after the pixel stages have changed it in place.
PreStart(file, cfg) ==
    [file |-> file, config |-> cfg, promise |-> "pending", value |-> NoValue,
     handler |-> "none", w |-> 0, h |-> 0, read |-> NoData, px |-> NoData,
     stages |-> <<>>]

\* The three pixel stages on a buffer the model holds.
PixelStages(px0, w, h, cfg) ==
    LET g == IF cfg.grayscale \/ cfg.binarize THEN Grayscale(px0) ELSE px0
        m == IF cfg.denoise THEN applyMedianFilter(g, w, h) ELSE g
    IN  IF cfg.binarize
        THEN applyAdaptiveThreshold(m, w, h, PipeWindowSize, PipeConstant)
        ELSE m

StageLog(w, h, cfg) ==
    (IF cfg.grayscale \/ cfg.binarize THEN <<Stage("grayscale", w, h)>> ELSE <<>>)
    \o (IF cfg.denoise THEN <<Stage("denoise", w, h)>> ELSE <<>>)
    \o (IF cfg.binarize THEN <<Stage("threshold", w, h)>> ELSE <<>>)

\* img.onload, from its first line to its return (or to the exception that
\* ends it), with the browser behaving as env and the canvas read back as px0.
PreOnLoadRec(rec, env, px0) ==
    LET cfg == rec.config
        size == UpscaledSize(rec.file.w, rec.file.h, cfg.upscale)
        w == size[1]
        h == size[2]
        sized == [rec EXCEPT !.w = w, !.h = h]
        px == IF Materialised(w, h) THEN PixelStages(px0, w, h, cfg) ELSE NoData
        upToWrite == <<Stage("resize", w, h), Stage("draw", w, h), Stage("read", w, h)>>
                         \o StageLog(w, h, cfg) \o <<Stage("write", w, h)>>
    IN  CASE env = "noctx" ->
                [sized EXCEPT !.promise = "resolved",
                              !.value = BlobUrl(rec.file, "preprocessImage"),
                              !.handler = "returned",
                              !.stages = <<Stage("resize", w, h)>>]
          [] env = "readThrows" ->
                [sized EXCEPT !.handler = "threw",
                              !.stages = <<Stage("resize", w, h), Stage("draw", w, h)>>]
          [] env = "encodeThrows" ->
                [sized EXCEPT !.handler = "threw", !.read = px0, !.px = px,
                              !.stages = upToWrite]
          [] OTHER ->
                [sized EXCEPT !.promise = "resolved", !.value = DataUrl(w, h, px),
                              !.handler = "returned", !.read = px0, !.px = px,
                              !.stages = upToWrite \o <<Stage("encode", w, h)>>]

\* img.onerror: revoke the URL and reject with the event.
PreOnErrorRec(rec) ==
    [rec EXCEPT !.promise = "rejected", !.value = DecodeErrorEvent(rec.file),
                !.handler = "returned"]

\* The URLs the invocation has revoked: its own, after resolve(processedUrl)
\* and in onerror; not when it resolved with the URL itself.
PreRevoked(rec) ==
    IF \/ rec.promise = "rejected"
       \/ rec.promise = "resolved" /\ rec.value.kind = "data"
    THEN {BlobUrl(rec.file, "preprocessImage")}
    ELSE {}

PreWaiting(rec) == rec.promise = "pending" /\ rec.handler = "none"

----------------------------------------------------------------------------
(* The Home component and the useOCR hook *)

\* data.text of a recognition: the empty string, or the text read from the
\* image of handleFile invocation r (two invocations never read the same
\* text, so every setResult of a non-empty text changes result).
EmptyText == [kind |-> "text", of |-> 0]

RecognizedText(r) == [kind |-> "text", of |-> r]

\* What worker.recognize can resolve with for invocation r.
RecOutcomes(r) ==
    { [text |-> EmptyText, confidence |-> 0],
      [text |-> RecognizedText(r), confidence |-> 90] }

\* const isLoading = status === 'initializing' || status === 'recognizing'
IsLoading(st) == st = "initializing" \/ st = "recognizing"

\* The slot of an invocation that has not called preprocessImage / performOCR.
NoPre ==
    [file |-> BadFile(0), config |-> DefaultConfig, promise |-> "notcalled",
     value |-> NoValue, handler |-> "notcalled", w |-> 0, h |-> 0,
     read |-> NoData, px |-> NoData, stages |-> <<>>]

NoOcr == [image |-> Null, langs |-> "", pc |-> "notcalled", worker |-> "none"]

\* performOCR up to `await createWorker(...)`.
OcrStart(input, langs) ==
    [image |-> input, langs |-> langs, pc |-> "createWorker", worker |-> "none"]

\* const langs = useEnglish ? 'amh+eng' : 'amh'
Langs(english) == IF english THEN "amh+eng" ELSE "amh"

InputForOCR_NoFallback(file, preRec) == preRec.value

\* inputForOCR once the try/catch around `await preprocessImage` is left:
\* the processed URL, or the file itself when the promise was rejected.
InputForOCR(file, preRec) ==
    IF preRec.promise = "resolved" THEN preRec.value ELSE FileRef(file)

\* A settled preprocessImage promise whose awaiting handleFile has not been
\* resumed yet: the continuation is a microtask and runs before any event.
ResumePending ==
    \E r \in DOMAIN hf :
        hf[r].pc = "awaitPre" /\ pre[r].promise \in {"resolved", "rejected"}

\* if (result) setEditableText(result), the effect run when result changes.
AfterResultEffect(text, newResult) ==
    IF newResult # Null /\ newResult # EmptyText THEN newResult ELSE text

----------------------------------------------------------------------------
(* Input buffers *)

Shapes == (1 .. MaxSide) \X (1 .. MaxSide)

\* Opacity of the inputs: opaque on even pixels, half transparent on odd ones.
AlphaOf(p) == IF p % 2 = 0 THEN 255 ELSE 128

\* The grayscale buffer (R = G = B) with intensities g.
GrayBuffer(w, h, g) ==
    [k \in Indices(w, h) |-> IF k % 4 = 3 THEN AlphaOf(k \div 4) ELSE g[k \div 4]]

\* Uniform intensity b, but for pixel q, which has intensity v.
Impulse(w, h, b, q, v) == [p \in Pixels(w, h) |-> IF p = q THEN v ELSE b]

Intensities(w, h) ==
    IF w * h <= MaxPixels
    THEN [Pixels(w, h) -> Levels]
    ELSE {Impulse(w, h, b, q, v) : b \in Levels, q \in Pixels(w, h), v \in Levels}

GrayBuffers(w, h) == {GrayBuffer(w, h, g) : g \in Intensities(w, h)}

MedShapes == (1 .. MedMaxSide) \X (1 .. MedMaxSide)

MedLow == CHOOSE v \in MedLevels : \A u \in MedLevels : v <= u

MedHigh == CHOOSE v \in MedLevels : \A u \in MedLevels : v >= u

MedIntensities(w, h) ==
    IF w >= 3 /\ h >= 3 /\ w * h <= MedFullPixels
    THEN [Pixels(w, h) -> MedLevels]
    ELSE IF w * h <= MedTwoPixels
    THEN [Pixels(w, h) -> {MedLow, MedHigh}]
    ELSE {Impulse(w, h, b, q, v) : b \in MedLevels, q \in Pixels(w, h), v \in MedLevels}

\* A colour buffer: red g, green 255 - g, blue 0.
TintedBuffer(w, h, g) ==
    [k \in Indices(w, h) |->
        CASE k % 4 = 0 -> g[k \div 4]
          [] k % 4 = 1 -> 255 - g[k \div 4]
          [] k % 4 = 2 -> 0
          [] OTHER -> AlphaOf(k \div 4)]

MedBuffers(w, h) ==
    {GrayBuffer(w, h, g) : g \in MedIntensities(w, h)}
        \cup {TintedBuffer(w, h, Impulse(w, h, b, q, v)) :
                  b \in MedLevels, q \in Pixels(w, h), v \in MedLevels}

\* RGBA pixels of the colour inputs: white, black, the primaries with three
\* opacities, and three colours whose luminance has fraction exactly .5.
Colours ==
    { <<255, 255, 255, 255>>, <<0, 0, 0, 255>>,
      <<255, 0, 0, 128>>, <<0, 255, 0, 0>>, <<0, 0, 255, 255>>,
      <<0, 0, 250, 77>>, <<0, 4, 168, 255>>, <<0, 80, 110, 255>> }

GrayShapes == {s \in (1 .. GrayMaxPixels) \X (1 .. GrayMaxPixels) :
                  s[1] * s[2] <= GrayMaxPixels}

ColourBuffers(w, h) ==
    {[k \in Indices(w, h) |-> c[k \div 4][(k % 4) + 1]] : c \in [Pixels(w, h) -> Colours]}

\* No buffer held by its size only.
RowIdle == fill = 0 /\ row = 0 /\ lastCol = 0

\* The Home component as mounted, which is also how it stays in the
\* specifications that do not run it.
HomeMounted ==
    /\ revoked = {}
    /\ image = Null
    /\ preview = Null
    /\ editableText = EmptyText
    /\ useEnglish = FALSE
    /\ usePreprocessing = TRUE
    /\ status = "idle"
    /\ progress = 0
    /\ result = Null
    /\ confidence = 0
    /\ hf = <<>>
    /\ ocr = <<>>

----------------------------------------------------------------------------
(* SpecThr: applyAdaptiveThreshold, then again on its own output *)

InitThr ==
    /\ mode = "thr"
    /\ \E s \in Shapes :
          /\ width = s[1]
          /\ height = s[2]
          /\ data \in GrayBuffers(s[1], s[2])
    /\ prev = NoData
    /\ calls = 0
    /\ windowSize \in WindowSizes
    /\ constant \in Constants
    /\ integral = NoData
    /\ win = NoData
    /\ outcome = "none"
    /\ RowIdle
    /\ pre = <<>>
    /\ HomeMounted

\* One call applyAdaptiveThreshold(data, width, height, windowSize, constant).
\* The function has no check of its arguments: it returns normally for every
\* window size.
ApplyThreshold ==
    /\ mode = "thr"
    /\ calls < 2
    /\ prev' = data
    /\ integral' = computeIntegralImage(data, width, height)
    /\ win' = WindowsOf(data, width, height, windowSize)
    /\ data' = applyAdaptiveThreshold(data, width, height, windowSize, constant)
    /\ calls' = calls + 1
    /\ outcome' = "returned"
    /\ UNCHANGED <<mode, width, height, windowSize, constant, rowVars, pre, revoked,
                   homeVars>>

NextThr == ApplyThreshold

SpecThr == InitThr /\ [][NextThr]_vars

----------------------------------------------------------------------------
(* SpecMed: one applyMedianFilter call *)

InitMed ==
    /\ mode = "med"
    /\ \E s \in MedShapes :
          /\ width = s[1]
          /\ height = s[2]
          /\ data \in MedBuffers(s[1], s[2])
    /\ prev = NoData
    /\ calls = 0
    /\ windowSize = 0
    /\ constant = 0
    /\ integral = NoData
    /\ win = NoData
    /\ outcome = "none"
    /\ RowIdle
    /\ pre = <<>>
    /\ HomeMounted

ApplyMedian ==
    /\ mode = "med"
    /\ calls < 1
    /\ prev' = data
    /\ data' = applyMedianFilter(data, width, height)
    /\ calls' = calls + 1
    /\ outcome' = "returned"
    /\ UNCHANGED <<mode, width, height, windowSize, constant, integral, win, rowVars,
                   pre, revoked, homeVars>>

NextMed == ApplyMedian

SpecMed == InitMed /\ [][NextMed]_vars

----------------------------------------------------------------------------
(* SpecGray: the grayscale loop on a colour buffer *)

InitGray ==
    /\ mode = "gray"
    /\ \E s \in GrayShapes :
          /\ width = s[1]
          /\ height = s[2]
          /\ data \in ColourBuffers(s[1], s[2])
    /\ prev = NoData
    /\ calls = 0
    /\ windowSize = 0
    /\ constant = 0
    /\ integral = NoData
    /\ win = NoData
    /\ outcome = "none"
    /\ RowIdle
    /\ pre = <<>>
    /\ HomeMounted

ApplyGrayscale ==
    /\ mode = "gray"
    /\ calls < 1
    /\ prev' = data
    /\ data' = Grayscale(data)
    /\ calls' = calls + 1
    /\ outcome' = "returned"
    /\ UNCHANGED <<mode, width, height, windowSize, constant, integral, win, rowVars,
                   pre, revoked, homeVars>>

NextGray == ApplyGrayscale

SpecGray == InitGray /\ [][NextGray]_vars

----------------------------------------------------------------------------
(* SpecInt: computeIntegralImage, row by row, on a large uniform buffer *)

\* width and height of the buffers preprocessImage hands to
\* applyAdaptiveThreshold and so to computeIntegralImage: the canvas sizes.
IntegralSizes ==
    {UpscaledSize(sz[1], sz[2], up) : sz \in DecodedSizes, up \in BOOLEAN}

\* Intensities of the uniform buffers: mid gray and white (a blank page).
Fills == {128, 255}

InitInt ==
    /\ mode = "int"
    /\ \E sz \in IntegralSizes : width = sz[1] /\ height = sz[2]
    /\ fill \in Fills
    /\ row = 0
    /\ lastCol = 0
    /\ data = NoData
    /\ prev = NoData
    /\ calls = 0
    /\ windowSize = 0
    /\ constant = 0
    /\ integral = NoData
    /\ win = NoData
    /\ outcome = "none"
    /\ pre = <<>>
    /\ HomeMounted

\* One pass of the outer loop, for y = row: the running sum of the row reaches
\* width * fill at x = width - 1, and the entry of the last column is the
\* entry above plus that sum (the sum alone when y = 0, where the entry
\* above counts as 0), stored into the Int32Array.
IntegralRow ==
    /\ mode = "int"
    /\ row < height
    /\ row' = row + 1
    /\ lastCol' = Int32Add(lastCol, width * fill)
    /\ UNCHANGED <<mode, width, height, data, prev, calls, windowSize, constant,
                   integral, win, outcome, fill, pre, revoked, homeVars>>

NextInt == IntegralRow

SpecInt == InitInt /\ [][NextInt]_vars

----------------------------------------------------------------------------
(* SpecPre: one preprocessImage(file, options) call *)

PreFiles == {BadFile(1)} \cup {ImageFile(1, sz) : sz \in DecodedSizes}

\* The pixel-function variables, unused outside SpecThr, SpecMed and SpecGray.
PixIdle ==
    /\ width = 0
    /\ height = 0
    /\ data = NoData
    /\ prev = NoData
    /\ calls = 0
    /\ windowSize = 0
    /\ constant = 0
    /\ integral = NoData
    /\ win = NoData
    /\ outcome = "none"
    /\ RowIdle

InitPre ==
    /\ mode = "pre"
    /\ PixIdle
    /\ HomeMounted
    /\ \E file \in PreFiles, options \in AllOptions :
          pre = <<PreStart(file, Config(options))>>

\* The decoder succeeded: img.onload runs.
PreOnLoad(r) ==
    /\ PreWaiting(pre[r])
    /\ pre[r].file.ok
    /\ \E env \in Envs :
          LET size == UpscaledSize(pre[r].file.w, pre[r].file.h, pre[r].config.upscale)
          IN  \E px0 \in CanvasBuffers(size[1], size[2]) :
                 LET rec == PreOnLoadRec(pre[r], env, px0)
                 IN  /\ pre' = [pre EXCEPT ![r] = rec]
                     /\ revoked' = revoked \cup PreRevoked(rec)
    /\ UNCHANGED <<mode, pixVars, homeVars>>

\* The decoder failed: img.onerror runs.
PreOnError(r) ==
    /\ PreWaiting(pre[r])
    /\ ~pre[r].file.ok
    /\ pre' = [pre EXCEPT ![r] = PreOnErrorRec(pre[r])]
    /\ revoked' = revoked \cup PreRevoked(PreOnErrorRec(pre[r]))
    /\ UNCHANGED <<mode, pixVars, homeVars>>

NextPre ==
    \/ \E r \in DOMAIN pre : PreOnLoad(r)
    \/ \E r \in DOMAIN pre : PreOnError(r)

SpecPre == InitPre /\ [][NextPre]_vars

----------------------------------------------------------------------------
(* SpecHome: uploads, Reset, and the completions of decoding and recognition *)

\* Files the user drops: an undecodable one and a 100x100 image.
HomeFiles(id) == {BadFile(id), ImageFile(id, <<100, 100>>)}

InitHome ==
    /\ mode = "home"
    /\ PixIdle
    /\ HomeMounted
    /\ pre = <<>>

\* The Dropzone calls handleFile(file); it is rendered while preview is null
\* and disabled while isLoading.  handleFile runs to its `await
\* preprocessImage(...)`, or, with preprocessing off, to its end, which
\* includes performOCR up to its first await.
HandleFile ==
    /\ mode = "home"
    /\ ~ResumePending
    /\ Len(hf) < MaxRuns
    /\ preview = Null
    /\ ~IsLoading(status)
    /\ \E file \in HomeFiles(Len(hf) + 1) :
          /\ revoked' = IF preview # Null THEN revoked \cup {preview} ELSE revoked
          /\ image' = file
          /\ preview' = BlobUrl(file, "handleFile")
          /\ IF usePreprocessing
             THEN /\ pre' = Append(pre, PreStart(file,
                                Config([grayscale |-> TRUE, binarize |-> TRUE])))
                  /\ hf' = Append(hf, [file |-> file, pc |-> "awaitPre",
                                       english |-> useEnglish, caught |-> FALSE])
                  /\ ocr' = Append(ocr, NoOcr)
                  /\ editableText' = EmptyText
                  /\ UNCHANGED <<status, progress, result>>
             ELSE /\ pre' = Append(pre, NoPre)
                  /\ hf' = Append(hf, [file |-> file, pc |-> "done",
                                       english |-> useEnglish, caught |-> FALSE])
                  /\ ocr' = Append(ocr, OcrStart(FileRef(file), Langs(useEnglish)))
                  /\ status' = "initializing"
                  /\ progress' = 0
                  /\ result' = Null
                  /\ editableText' = EmptyText
    /\ UNCHANGED <<mode, pixVars, useEnglish, usePreprocessing, confidence>>

\* handleFile resumes after `await preprocessImage(...)`: the rest of the
\* try block or the catch block, then performOCR up to its first await.
HandleFileResume(r) ==
    /\ mode = "home"
    /\ hf[r].pc = "awaitPre"
    /\ pre[r].promise \in {"resolved", "rejected"}
    /\ preview' = IF pre[r].promise = "resolved" THEN pre[r].value ELSE preview
    /\ hf' = [hf EXCEPT ![r].pc = "done", ![r].caught = (pre[r].promise = "rejected")]
    /\ ocr' = [ocr EXCEPT ![r] = OcrStart(InputForOCR(hf[r].file, pre[r]),
                                          Langs(hf[r].english))]
    /\ status' = "initializing"
    /\ progress' = 0
    /\ result' = Null
    /\ UNCHANGED <<mode, pixVars, pre, revoked, image, editableText, useEnglish,
                   usePreprocessing, confidence>>

\* The Reset button calls handleClear; it is rendered while preview is set
\* and disabled while isLoading.
HandleClear ==
    /\ mode = "home"
    /\ ~ResumePending
    /\ preview # Null
    /\ ~IsLoading(status)
    /\ revoked' = IF preview.kind # "data" THEN revoked \cup {preview} ELSE revoked
    /\ image' = Null
    /\ preview' = Null
    /\ editableText' = EmptyText
    /\ UNCHANGED <<mode, pixVars, pre, useEnglish, usePreprocessing, status,
                   progress, result, confidence, hf, ocr>>

ToggleEnglish ==
    /\ mode = "home"
    /\ ~ResumePending
    /\ useEnglish' = ~useEnglish
    /\ UNCHANGED <<mode, pixVars, pre, revoked, image, preview, editableText,
                   usePreprocessing, status, progress, result, confidence, hf, ocr>>

TogglePreprocessing ==
    /\ mode = "home"
    /\ ~ResumePending
    /\ usePreprocessing' = ~usePreprocessing
    /\ UNCHANGED <<mode, pixVars, pre, revoked, image, preview, editableText,
                   useEnglish, status, progress, result, confidence, hf, ocr>>

\* img.onload / img.onerror of the preprocessImage call of invocation r.
HomeOnLoad(r) == mode = "home" /\ ~ResumePending /\ PreOnLoad(r)

HomeOnError(r) == mode = "home" /\ ~ResumePending /\ PreOnError(r)

\* createWorker resolved: setStatus('recognizing') and worker.recognize(image).
OcrWorkerCreated(r) ==
    /\ mode = "home"
    /\ ~ResumePending
    /\ ocr[r].pc = "createWorker"
    /\ ocr' = [ocr EXCEPT ![r].pc = "recognize", ![r].worker = "running"]
    /\ status' = "recognizing"
    /\ UNCHANGED <<mode, pixVars, pre, revoked, image, preview, editableText,
                   useEnglish, usePreprocessing, progress, result, confidence, hf>>

\* createWorker rejected: the catch block.
OcrWorkerFailed(r) ==
    /\ mode = "home"
    /\ ~ResumePending
    /\ ocr[r].pc = "createWorker"
    /\ ocr' = [ocr EXCEPT ![r].pc = "caught"]
    /\ status' = "error"
    /\ UNCHANGED <<mode, pixVars, pre, revoked, image, preview, editableText,
                   useEnglish, usePreprocessing, progress, result, confidence, hf>>

\* The logger callback reports recognition progress.
OcrProgress(r) ==
    /\ mode = "home"
    /\ ~ResumePending
    /\ ocr[r].pc = "recognize"
    /\ progress = 0
    /\ progress' = 1
    /\ UNCHANGED <<mode, pixVars, pre, revoked, image, preview, editableText,
                   useEnglish, usePreprocessing, status, result, confidence, hf, ocr>>

\* worker.recognize resolved: result, confidence and status are set, the
\* effect copies a non-empty result into editableText, and worker.terminate()
\* is awaited.
OcrRecognized(r) ==
    /\ mode = "home"
    /\ ~ResumePending
    /\ ocr[r].pc = "recognize"
    /\ \E d \in RecOutcomes(r) :
          /\ result' = d.text
          /\ confidence' = d.confidence
          /\ editableText' = AfterResultEffect(editableText, d.text)
    /\ status' = "completed"
    /\ ocr' = [ocr EXCEPT ![r].pc = "terminate"]
    /\ UNCHANGED <<mode, pixVars, pre, revoked, image, preview, useEnglish,
                   usePreprocessing, progress, hf>>

\* worker.recognize rejected: the catch block; the worker is left running.
OcrRecognizeFailed(r) ==
    /\ mode = "home"
    /\ ~ResumePending
    /\ ocr[r].pc = "recognize"
    /\ ocr' = [ocr EXCEPT ![r].pc = "caught"]
    /\ status' = "error"
    /\ UNCHANGED <<mode, pixVars, pre, revoked, image, preview, editableText,
                   useEnglish, usePreprocessing, progress, result, confidence, hf>>

\* worker.terminate() resolved: performOCR returns data.
OcrTerminated(r) ==
    /\ mode = "home"
    /\ ~ResumePending
    /\ ocr[r].pc = "terminate"
    /\ ocr' = [ocr EXCEPT ![r].pc = "returned", ![r].worker = "terminated"]
    /\ UNCHANGED <<mode, pixVars, pre, revoked, image, preview, editableText,
                   useEnglish, usePreprocessing, status, progress, result,
                   confidence, hf>>

\* worker.terminate() rejected: the catch block, after the result was set.
OcrTerminateFailed(r) ==
    /\ mode = "home"
    /\ ~ResumePending
    /\ ocr[r].pc = "terminate"
    /\ ocr' = [ocr EXCEPT ![r].pc = "caught"]
    /\ status' = "error"
    /\ UNCHANGED <<mode, pixVars, pre, revoked, image, preview, editableText,
                   useEnglish, usePreprocessing, progress, result, confidence, hf>>

NextHome ==
    \/ HandleFile
    \/ HandleClear
    \/ ToggleEnglish
    \/ TogglePreprocessing
    \/ \E r \in DOMAIN hf : HandleFileResume(r)
    \/ \E r \in DOMAIN hf : HomeOnLoad(r)
    \/ \E r \in DOMAIN hf : HomeOnError(r)
    \/ \E r \in DOMAIN hf : OcrWorkerCreated(r)
    \/ \E r \in DOMAIN hf : OcrWorkerFailed(r)
    \/ \E r \in DOMAIN hf : OcrProgress(r)
    \/ \E r \in DOMAIN hf : OcrRecognized(r)
    \/ \E r \in DOMAIN hf : OcrRecognizeFailed(r)
    \/ \E r \in DOMAIN hf : OcrTerminated(r)
    \/ \E r \in DOMAIN hf : OcrTerminateFailed(r)

SpecHome == InitHome /\ [][NextHome]_vars

----------------------------------------------------------------------------
(* Reference definitions the claims are stated with (not taken from the    *)
(* code: sums and windows by plain enumeration of pixels)                   *)

PixelX(p, w) == p % w

PixelY(p, w) == p \div w

\* Sum of the first-channel intensities of the pixels in S.
RECURSIVE SumIntensity(_, _)
SumIntensity(d, S) ==
    IF S = {} THEN 0
    ELSE LET p == CHOOSE q \in S : TRUE
         IN  d[p * 4] + SumIntensity(d, S \ {p})

\* The pixels of the rectangle (0,0)-(x,y).
Prefix(w, h, x, y) ==
    {q \in Pixels(w, h) : PixelX(q, w) <= x /\ PixelY(q, w) <= y}

\* The ws-sided square centred on (x, y), intersected with the image.
Window(w, h, x, y, ws) ==
    {q \in Pixels(w, h) :
        /\ 2 * (PixelX(q, w) - x) <= ws - 1 /\ 2 * (x - PixelX(q, w)) <= ws - 1
        /\ 2 * (PixelY(q, w) - y) <= ws - 1 /\ 2 * (y - PixelY(q, w)) <= ws - 1}

ValidWindow(ws) == ws > 0 /\ ws % 2 = 1

IsWhite(d, p) == d[p * 4] = 255 /\ d[p * 4 + 1] = 255 /\ d[p * 4 + 2] = 255

IsBlack(d, p) == d[p * 4] = 0 /\ d[p * 4 + 1] = 0 /\ d[p * 4 + 2] = 0

IsUniform(d, w, h, v) == \A p \in Pixels(w, h) : d[p * 4] = v

----------------------------------------------------------------------------
(* Claims settled under SpecThr *)

\* C1 (as stated): a second applyAdaptiveThreshold run on the output of the
\* first, with the same odd positive windowSize and the same constant, leaves
\* every channel of every pixel as the first run produced it.
C1_Idempotent ==
    (mode = "thr" /\ calls = 2 /\ ValidWindow(windowSize)) => data = prev

\* C1 (amended): the second run keeps the opacity of every pixel, produces
\* black or white at every pixel, keeps every white pixel white when the
\* constant is positive and every black pixel black when the constant is zero
\* or negative.
C1_SecondRunOneSided ==
    (mode = "thr" /\ calls = 2 /\ ValidWindow(windowSize)) =>
        \A p \in Pixels(width, height) :
            /\ data[p * 4 + 3] = prev[p * 4 + 3]
            /\ IsWhite(data, p) \/ IsBlack(data, p)
            /\ (constant > 0 /\ IsWhite(prev, p)) => IsWhite(data, p)
            /\ (constant <= 0 /\ IsBlack(prev, p)) => IsBlack(data, p)

\* A second run that changed a pixel: with a positive constant a black pixel
\* turned white.
C1_Witness ==
    /\ mode = "thr" /\ calls = 2 /\ ValidWindow(windowSize)
    /\ constant > 0
    /\ \E p \in Pixels(width, height) : IsBlack(prev, p) /\ IsWhite(data, p)
    /\ \E p \in Pixels(width, height) : IsWhite(prev, p) /\ IsWhite(data, p)

\* C3: a call with an invalid windowSize (non-positive or even) ends with a
\* ConfigError and leaves every pixel as it was.
C3_FailClosed ==
    (mode = "thr" /\ calls >= 1 /\ ~ValidWindow(windowSize)) =>
        (outcome = "ConfigError" /\ data = prev)

\* C6: every entry of the integral image is the sum of the first-channel
\* intensities over the rectangle (0,0)-(x,y), and the entries do not
\* decrease to the right or downwards.
C6_IntegralCorrect ==
    (mode = "thr" /\ calls >= 1) =>
        /\ DOMAIN integral = Pixels(width, height)
        /\ \A p \in Pixels(width, height) :
              LET x == PixelX(p, width)
                  y == PixelY(p, width)
              IN  /\ integral[p] = SumIntensity(prev, Prefix(width, height, x, y))
                  /\ x > 0 => integral[p] >= integral[p - 1]
                  /\ y > 0 => integral[p] >= integral[p - width]

\* An integral image of a buffer with at least two rows and two columns whose
\* last entry exceeds every other one.
C6_Witness ==
    /\ mode = "thr" /\ calls = 1 /\ width >= 2 /\ height >= 2
    /\ prev[0] > 0
    /\ \A p \in Pixels(width, height) :
          p < width * height - 1 => integral[p] < integral[width * height - 1]

\* C7: for an odd positive windowSize, the sum D + A - B - C used for a pixel
\* is the sum of intensities over the square window clamped to the image, and
\* count is the number of pixels of that clamped window.
C7_WindowCorrect ==
    (mode = "thr" /\ calls >= 1 /\ ValidWindow(windowSize)) =>
        \A p \in Pixels(width, height) :
            LET W == Window(width, height, PixelX(p, width), PixelY(p, width),
                            windowSize)
            IN  /\ win[p].sum = SumIntensity(prev, W)
                /\ win[p].count = Cardinality(W)

\* A 3x3 buffer thresholded with windowSize 3: the corner window has 4
\* pixels, the centre window all 9, and the buffer is not uniform.
C7_Witness ==
    /\ mode = "thr" /\ calls = 1 /\ windowSize = 3
    /\ width = 3 /\ height = 3
    /\ win[0].count = 4 /\ win[4].count = 9
    /\ win[0].sum # win[8].sum

\* C10: thresholding a buffer of one intensity gives white everywhere when
\* the constant is positive and black everywhere when it is zero or
\* negative, whatever the window size and the image size.
C10_Uniform ==
    (mode = "thr" /\ calls = 1 /\ \E v \in Levels : IsUniform(prev, width, height, v)) =>
        \A p \in Pixels(width, height) :
            IF constant > 0 THEN IsWhite(data, p) ELSE IsBlack(data, p)

\* The 3x3 buffer of 128 with windowSize 3 and constant -10, all black.
C10_Witness ==
    /\ mode = "thr" /\ calls = 1 /\ width = 3 /\ height = 3
    /\ IsUniform(prev, 3, 3, 128) /\ windowSize = 3 /\ constant = -10
    /\ \A p \in Pixels(3, 3) : IsBlack(data, p)

\* The same buffer with constant 10, all white.
C10_WitnessWhite ==
    /\ mode = "thr" /\ calls = 1 /\ width = 3 /\ height = 3
    /\ IsUniform(prev, 3, 3, 128) /\ windowSize = 3 /\ constant = 10
    /\ \A p \in Pixels(3, 3) : IsWhite(data, p)

\* The pixel's intensity against the mean of its window minus the constant,
\* on the buffer d: -1, 0 or 1 for below, equal, above (count * intensity
\* against sum - constant * count, the count being positive).
AgainstLocalMean(d, w, h, p, ws, c) ==
    LET W == Window(w, h, PixelX(p, w), PixelY(p, w), ws)
        n == Cardinality(W)
        lhs == d[p * 4] * n
        rhs == SumIntensity(d, W) - c * n
    IN  IF lhs > rhs THEN 1 ELSE IF lhs = rhs THEN 0 ELSE -1

\* C13: every pixel is classified from the buffer as it was before the call:
\* it becomes 255 exactly when its intensity is strictly greater than the
\* mean of its window minus the constant and 0 otherwise, equality included;
\* after the call the three colour channels of every pixel are equal and in
\* {0, 255} and its opacity is 255.
C13_Classification ==
    (mode = "thr" /\ calls >= 1) =>
        \A p \in Pixels(width, height) :
            /\ IsWhite(data, p) \/ IsBlack(data, p)
            /\ data[p * 4 + 3] = 255
            /\ ValidWindow(windowSize) =>
                  /\ AgainstLocalMean(prev, width, height, p, windowSize, constant) = 1
                        => IsWhite(data, p)
                  /\ AgainstLocalMean(prev, width, height, p, windowSize, constant) <= 0
                        => IsBlack(data, p)

\* A 1x3 row 0, 100, 200 with window 3 and constant 0: the middle pixel equals
\* the mean of its window and turns black, its opacity going from 128 to 255;
\* the right pixel is above the mean of its window and turns white.
C13_Witness ==
    /\ mode = "thr" /\ calls = 1 /\ width = 3 /\ height = 1
    /\ windowSize = 3 /\ constant = 0
    /\ prev[0] = 0 /\ prev[4] = 100 /\ prev[8] = 200 /\ prev[7] = 128
    /\ AgainstLocalMean(prev, 3, 1, 1, 3, 0) = 0
    /\ IsBlack(data, 1) /\ data[7] = 255
    /\ IsWhite(data, 2)

----------------------------------------------------------------------------
(* Claims settled under SpecInt *)

\* The entry of the last column of the last completed row is the sum of the
\* rows completed so far: row * width * fill, said without the product.
ExactLastCol ==
    /\ lastCol >= 0
    /\ lastCol % (width * fill) = 0
    /\ lastCol \div (width * fill) = row

\* C14: for every buffer size the pipeline hands to computeIntegralImage,
\* upscaled sizes included, the 32-bit entries hold the exact prefix sums:
\* width * height * 255 does not exceed the largest value of an entry, and
\* no entry has wrapped around to a wrong or negative value.
C14_IntegralFits ==
    (mode = "int" /\ row >= 1) =>
        /\ ExactLastCol
        /\ row = height => width * height <= Int32Max \div 255

\* The run that departs from C14: a white 1499 x 1500 image, upscaled to
\* 2998 x 3000; the entry that ends row 2809 is negative.
C14_Wrapped ==
    /\ mode = "int" /\ width = 2998 /\ height = 3000 /\ fill = 255
    /\ row = 2810 /\ lastCol < 0

\* Up to 8421504 pixels the entries are exact whatever the intensities.
C14_SmallSizesExact ==
    (mode = "int" /\ row >= 1 /\ width * height <= Int32Max \div 255) => ExactLastCol

----------------------------------------------------------------------------
(* Claims settled under SpecGray *)

Luminance1000(d, p) == 299 * d[p * 4] + 587 * d[p * 4 + 1] + 114 * d[p * 4 + 2]

\* C8: after the grayscale step the three colour channels of every pixel hold
\* one value, the luminance 0.299R + 0.587G + 0.114B of the pixel rounded to
\* an integer of 0..255; the opacity of every pixel is as before and the
\* buffer still has width*height*4 entries.
C8_Grayscale ==
    (mode = "gray" /\ calls = 1) =>
        /\ DOMAIN data = Indices(width, height)
        /\ \A p \in Pixels(width, height) :
              /\ data[p * 4] \in 0 .. 255
              /\ data[p * 4 + 1] = data[p * 4]
              /\ data[p * 4 + 2] = data[p * 4]
              /\ 1000 * data[p * 4] - Luminance1000(prev, p) <= 500
              /\ Luminance1000(prev, p) - 1000 * data[p * 4] <= 500
              /\ data[p * 4 + 3] = prev[p * 4 + 3]

\* A two-pixel buffer, pure green (luminance 149.685, stored as 150) next to
\* half-transparent red, after the grayscale step.
C8_Witness ==
    /\ mode = "gray" /\ calls = 1 /\ width * height = 2
    /\ prev[0] = 0 /\ prev[1] = 255 /\ prev[2] = 0 /\ prev[3] = 0
    /\ data[0] = 150 /\ data[3] = 0
    /\ prev[4] = 255 /\ prev[5] = 0 /\ data[5] = 76 /\ data[7] = 128

----------------------------------------------------------------------------
(* Claims settled under SpecMed *)

OnRing(p, w, h) ==
    \/ PixelX(p, w) = 0 \/ PixelX(p, w) = w - 1
    \/ PixelY(p, w) = 0 \/ PixelY(p, w) = h - 1

\* C9: applyMedianFilter leaves every channel of every pixel of the outermost
\* one-pixel ring as it was, leaves the opacity of every pixel as it was, and
\* changes nothing in a buffer narrower or lower than 3 pixels.
C9_MedianFrame ==
    (mode = "med" /\ calls = 1) =>
        /\ \A p \in Pixels(width, height) :
              /\ data[p * 4 + 3] = prev[p * 4 + 3]
              /\ OnRing(p, width, height) =>
                    \A c \in 0 .. 3 : data[p * 4 + c] = prev[p * 4 + c]
        /\ (width < 3 \/ height < 3) => data = prev

\* A filtered buffer whose interior changed while its ring, which is not
\* uniform, stayed.
C9_Witness ==
    /\ mode = "med" /\ calls = 1 /\ width >= 3 /\ height >= 3
    /\ data # prev
    /\ \E p, q \in Pixels(width, height) :
          /\ OnRing(p, width, height) /\ OnRing(q, width, height)
          /\ prev[p * 4] # prev[q * 4]

\* The 3x3 neighbourhood of pixel p, as far as it lies in the image.
Around(p, w, h) ==
    {q \in Pixels(w, h) :
        /\ PixelX(q, w) - PixelX(p, w) \in {-1, 0, 1}
        /\ PixelY(q, w) - PixelY(p, w) \in {-1, 0, 1}}

\* m is the 5th smallest of the first-channel intensities that the nine
\* pixels of N have in d: at most four of them are below m and at least
\* five are at most m, and m is one of them.
IsFifthSmallest(m, d, N) ==
    /\ \E q \in N : d[q * 4] = m
    /\ Cardinality({q \in N : d[q * 4] < m}) <= 4
    /\ Cardinality({q \in N : d[q * 4] <= m}) >= 5

\* A filtered colour buffer: the green channel of an interior pixel now holds
\* the median of the red channel.
C15_WitnessColour ==
    /\ mode = "med" /\ calls = 1 /\ width >= 3 /\ height >= 3
    /\ \E p \in Pixels(width, height) :
          /\ ~OnRing(p, width, height)
          /\ prev[p * 4 + 1] # prev[p * 4]
          /\ data[p * 4 + 1] = data[p * 4] /\ data[p * 4 + 1] # prev[p * 4 + 1]

\* C15: for every interior pixel (1 <= x <= width-2, 1 <= y <= height-2) the
\* three colour channels after applyMedianFilter all hold the 5th smallest of
\* the nine first-channel intensities its 3x3 neighbourhood had when the call
\* started, whatever the call wrote to neighbouring pixels before.
C15_MedianFromSnapshot ==
    (mode = "med" /\ calls = 1) =>
        \A p \in Pixels(width, height) :
            (~OnRing(p, width, height)) =>
                /\ Cardinality(Around(p, width, height)) = 9
                /\ IsFifthSmallest(data[p * 4], prev, Around(p, width, height))
                /\ data[p * 4 + 1] = data[p * 4]
                /\ data[p * 4 + 2] = data[p * 4]

\* A filtered buffer with at least two interior pixels on which filtering in
\* place, without the copy, would have given another result.
C15_Witness ==
    /\ mode = "med" /\ calls = 1 /\ width >= 3 /\ height >= 3
    /\ \E p \in Pixels(width, height) :
          ~OnRing(p, width, height) /\ data[p * 4] # prev[p * 4]
    /\ data # applyMedianFilter_InPlace(prev, width, height)

----------------------------------------------------------------------------
(* Claims settled under SpecPre *)

OnLoadRan(rec) == rec.handler # "none" /\ rec.file.ok

PixelStageNames == {"grayscale", "denoise", "threshold"}

\* C4: with upscale enabled the working size is (2w, 2h) when w < 1500 or
\* h < 1500 and (w, h) when both are at least 1500; with upscale disabled it
\* is (w, h); both dimensions get the same factor, and the resize is the first
\* stage, ahead of every grayscale, denoise or threshold stage, which all run
\* at the working size.
C4_UpscaleRule ==
    \A r \in DOMAIN pre :
        LET rec == pre[r]
            fw == rec.file.w
            fh == rec.file.h
        IN  (mode = "pre" /\ OnLoadRan(rec)) =>
            /\ (rec.config.upscale /\ (fw < 1500 \/ fh < 1500))
                  => (rec.w = 2 * fw /\ rec.h = 2 * fh)
            /\ (rec.config.upscale /\ fw >= 1500 /\ fh >= 1500)
                  => (rec.w = fw /\ rec.h = fh)
            /\ ~rec.config.upscale => (rec.w = fw /\ rec.h = fh)
            /\ rec.w * fh = rec.h * fw
            /\ rec.stages[1] = Stage("resize", rec.w, rec.h)
            /\ \A i \in DOMAIN rec.stages :
                  /\ rec.stages[i].w = rec.w /\ rec.stages[i].h = rec.h
                  /\ rec.stages[i].stage \in PixelStageNames => i > 1
                  /\ i > 1 => rec.stages[i].stage # "resize"
            /\ rec.value.kind = "data" => (rec.value.w = rec.w /\ rec.value.h = rec.h)

\* A 1500 x 1499 image, upscaled to 3000 x 2998 and then thresholded.
C4_Witness ==
    \E r \in DOMAIN pre :
        /\ mode = "pre" /\ pre[r].promise = "resolved"
        /\ pre[r].file.w = 1500 /\ pre[r].file.h = 1499 /\ pre[r].config.upscale
        /\ pre[r].w = 3000 /\ pre[r].h = 2998
        /\ \E i \in DOMAIN pre[r].stages : pre[r].stages[i].stage = "threshold"

Output(rec) == <<rec.value.w, rec.value.h>>

Encoded(rec, fw, fh) ==
    /\ rec.file.ok /\ rec.file.w = fw /\ rec.file.h = fh
    /\ rec.config.upscale
    /\ rec.promise = "resolved" /\ rec.value.kind = "data"

\* C5 (as stated): with upscale enabled a 100x100 input is output at 200x200
\* and an 1800x900 input is output at 1800x900.
C5_UpscaleExamples ==
    \A r \in DOMAIN pre :
        /\ Encoded(pre[r], 100, 100) => Output(pre[r]) = <<200, 200>>
        /\ Encoded(pre[r], 1800, 900) => Output(pre[r]) = <<1800, 900>>

\* C5 (amended): with upscale enabled a 100x100 input is output at 200x200
\* and an 1800x900 input, whose height is below 1500, at 3600x1800.
C5_UpscaleExamplesAmended ==
    \A r \in DOMAIN pre :
        /\ Encoded(pre[r], 100, 100) => Output(pre[r]) = <<200, 200>>
        /\ Encoded(pre[r], 1800, 900) => Output(pre[r]) = <<3600, 1800>>

\* The 1800x900 input, encoded.
C5_Witness ==
    \E r \in DOMAIN pre : mode = "pre" /\ Encoded(pre[r], 1800, 900)

----------------------------------------------------------------------------
(* Stage order of preprocessImage (SpecPre) *)

Ran(rec, name) == \E i \in DOMAIN rec.stages : rec.stages[i].stage = name

\* Place of a stage in the order resize, grayscale, denoise, threshold,
\* encode; 0 for the canvas calls in between.
StageRank(name) ==
    CASE name = "resize" -> 1
      [] name = "grayscale" -> 2
      [] name = "denoise" -> 3
      [] name = "threshold" -> 4
      [] name = "encode" -> 5
      [] OTHER -> 0

InOrder(rec) ==
    \A i, j \in DOMAIN rec.stages :
        (i < j /\ StageRank(rec.stages[i].stage) > 0 /\ StageRank(rec.stages[j].stage) > 0)
            => StageRank(rec.stages[i].stage) < StageRank(rec.stages[j].stage)

RanBefore(rec, first, second) ==
    \A j \in DOMAIN rec.stages :
        rec.stages[j].stage = second =>
            \E i \in DOMAIN rec.stages : i < j /\ rec.stages[i].stage = first

\* The three colour channels of pixel p are equal.
GrayAt(d, p) == d[4 * p] = d[4 * p + 1] /\ d[4 * p + 1] = d[4 * p + 2]

AllGray(d, w, h) == \A p \in Pixels(w, h) : GrayAt(d, p)

\* The buffer as the denoise stage and as the threshold stage find it, from
\* the buffer read back and the stages logged before them.
DenoiseInput(rec) ==
    IF Ran(rec, "grayscale") THEN Grayscale(rec.read) ELSE rec.read

ThresholdInput(rec) ==
    IF Ran(rec, "denoise")
    THEN applyMedianFilter(DenoiseInput(rec), rec.w, rec.h)
    ELSE DenoiseInput(rec)

\* The pixel stages were reached: getImageData returned.
PixelWorkDone(rec) == Ran(rec, "write")

\* The part of C11 about the order and about the threshold stage: the stages
\* that run are the enabled ones (grayscale also when only binarize is
\* enabled), in the order resize, grayscale, denoise, threshold, encode, and
\* the threshold stage reads a buffer the grayscale stage has reduced.
C11_OrderAndThresholdPrerequisite ==
    \A r \in DOMAIN pre :
        LET rec == pre[r]
            cfg == rec.config
        IN  (mode = "pre" /\ OnLoadRan(rec)) =>
            /\ InOrder(rec)
            /\ PixelWorkDone(rec) =>
                  /\ Ran(rec, "grayscale") <=> (cfg.grayscale \/ cfg.binarize)
                  /\ Ran(rec, "denoise") <=> cfg.denoise
                  /\ Ran(rec, "threshold") <=> cfg.binarize
                  /\ rec.promise = "resolved" => Ran(rec, "encode")
                  /\ cfg.binarize =>
                        /\ RanBefore(rec, "grayscale", "threshold")
                        /\ Materialised(rec.w, rec.h) =>
                              AllGray(ThresholdInput(rec), rec.w, rec.h)

\* C11: in every run, for every combination of the four options, the enabled
\* stages run in the order resize, grayscale, denoise, threshold, encode, and
\* whenever denoise or binarize is enabled the grayscale stage has run before
\* that stage reads the buffer, which therefore has equal colour channels at
\* every pixel.
C11_StageOrder ==
    /\ C11_OrderAndThresholdPrerequisite
    /\ \A r \in DOMAIN pre :
          LET rec == pre[r]
          IN  (mode = "pre" /\ OnLoadRan(rec) /\ PixelWorkDone(rec) /\ rec.config.denoise) =>
                  /\ RanBefore(rec, "grayscale", "denoise")
                  /\ Materialised(rec.w, rec.h) =>
                        AllGray(DenoiseInput(rec), rec.w, rec.h)

\* The run that departs from C11: denoise enabled with grayscale and binarize
\* disabled, where the median filter was handed a buffer with a coloured pixel.
C11_DenoiseOnColour ==
    \E r \in DOMAIN pre :
        /\ mode = "pre" /\ pre[r].promise = "resolved"
        /\ pre[r].config.denoise /\ ~pre[r].config.grayscale /\ ~pre[r].config.binarize
        /\ Ran(pre[r], "denoise") /\ ~Ran(pre[r], "grayscale")
        /\ Materialised(pre[r].w, pre[r].h)
        /\ ~AllGray(DenoiseInput(pre[r]), pre[r].w, pre[r].h)

----------------------------------------------------------------------------
(* Failures of the canvas in img.onload (SpecPre) *)

\* A reference to the unmodified input: the file itself or the object URL
\* preprocessImage made for it, still valid.
RefersToInput(rec) ==
    \/ rec.value = FileRef(rec.file)
    \/ rec.value = BlobUrl(rec.file, "preprocessImage") /\ rec.value \notin revoked

\* img.onload ran and did not get as far as an encoded canvas: getContext
\* returned null, or getImageData or toDataURL threw.
CanvasFailed(rec) == OnLoadRan(rec) /\ ~Ran(rec, "encode")

\* The part of C12 about an unavailable drawing context: the promise is
\* resolved with the object URL of the input, which is not revoked.
C12_NoContextFailsOpen ==
    \A r \in DOMAIN pre :
        (mode = "pre" /\ OnLoadRan(pre[r]) /\ ~Ran(pre[r], "draw")) =>
            /\ pre[r].promise = "resolved"
            /\ RefersToInput(pre[r])

\* C12: whenever the drawing context is unavailable, or reading back or
\* encoding the buffer fails, the promise of preprocessImage is settled by
\* the time img.onload has ended, resolved with a reference to the unmodified
\* input; no invocation is left with a promise nothing will settle.
C12_FailOpenOnCanvasFailure ==
    \A r \in DOMAIN pre :
        (mode = "pre" /\ CanvasFailed(pre[r])) =>
            /\ pre[r].promise = "resolved"
            /\ RefersToInput(pre[r])

\* The run that departs from C12: img.onload ended with an exception from
\* getImageData or toDataURL, and the promise is pending with no handler left
\* to settle it.
C12_LeftPending ==
    \E r \in DOMAIN pre :
        /\ mode = "pre" /\ pre[r].handler = "threw" /\ pre[r].promise = "pending"
        /\ ~ENABLED PreOnLoad(r) /\ ~ENABLED PreOnError(r)

----------------------------------------------------------------------------
(* Claims settled under SpecHome *)

DecodeFailed(rec) == rec.handler = "returned" /\ ~rec.file.ok

\* C2 (as stated): when the image cannot be decoded and binarize is enabled,
\* preprocessImage hands its caller the original input and surfaces no error:
\* its promise is fulfilled, with a reference to the input, never rejected.
C2_FailOpen ==
    \A r \in DOMAIN pre :
        (DecodeFailed(pre[r]) /\ pre[r].config.binarize) =>
            /\ pre[r].promise = "resolved"
            /\ pre[r].value \in {FileRef(pre[r].file),
                                 BlobUrl(pre[r].file, "preprocessImage")}

\* C2 (amended): when the image cannot be decoded, preprocessImage rejects its
\* promise with the error event; the caller handleFile catches the rejection,
\* completes, and starts recognition on the original file.
C2_FailOpenInCaller ==
    \A r \in DOMAIN hf :
        (mode = "home" /\ DecodeFailed(pre[r])) =>
            /\ pre[r].promise = "rejected"
            /\ pre[r].value = DecodeErrorEvent(hf[r].file)
            /\ hf[r].pc = "done" =>
                  /\ hf[r].caught
                  /\ ocr[r].pc # "notcalled"
                  /\ ocr[r].image = FileRef(hf[r].file)

\* An upload with preprocessing on whose decoding failed and whose
\* recognition, on the file itself, has completed.
C2_Witness ==
    \E r \in DOMAIN hf :
        /\ mode = "home" /\ DecodeFailed(pre[r]) /\ pre[r].config.binarize
        /\ hf[r].pc = "done" /\ hf[r].caught
        /\ ocr[r].image = FileRef(hf[r].file) /\ ocr[r].pc = "returned"
        /\ result = RecognizedText(r)

----------------------------------------------------------------------------
(* Overlapping handleFile runs (SpecHome) *)

\* Nothing is in flight: every handleFile has run to its end and every
\* performOCR it started has returned or reached its catch block.
Quiescent ==
    \A r \in DOMAIN hf :
        hf[r].pc = "done" /\ ocr[r].pc \in {"returned", "caught"}

\* The previews handleFile invocation r sets: the object URL of its file and
\* what its preprocessImage call resolved with.
PreviewsOf(r) ==
    {BlobUrl(hf[r].file, "handleFile")}
        \cup (IF pre[r].promise = "resolved" THEN {pre[r].value} ELSE {})

\* The values of result that belong to invocation r.
ResultsOf(r) == {Null, EmptyText, RecognizedText(r)}

\* C16: under every interleaving of uploads, Reset presses and completions,
\* once nothing is in flight the preview, the result and the text shown
\* belong to the image submitted last, and nothing is shown when a Reset
\* came after the last upload; no earlier handleFile run has overwritten the
\* preview or the result of a later one.
C16_NoStaleOverwrite ==
    (mode = "home" /\ hf # <<>> /\ Quiescent) =>
        IF image = Null
        THEN preview = Null /\ editableText = EmptyText
        ELSE /\ image = hf[Len(hf)].file
             /\ preview \in PreviewsOf(Len(hf))
             /\ result \in ResultsOf(Len(hf))
             /\ editableText \in {EmptyText, RecognizedText(Len(hf))}

\* A run that departs from C16: Reset was pressed while the only upload was
\* being preprocessed; the run went on, and with nothing in flight the
\* processed preview and the recognized text of the discarded image are shown.
C16_ShownAfterReset ==
    /\ mode = "home" /\ Len(hf) = 1 /\ Quiescent
    /\ image = Null
    /\ preview = pre[1].value /\ preview.kind = "data"
    /\ editableText = RecognizedText(1)

\* Another: two uploads with a Reset in between, both runs complete, and the
\* image is the second file while the result is the text of the first.
C16_StaleResult ==
    /\ mode = "home" /\ Len(hf) = 2 /\ Quiescent
    /\ image = hf[2].file
    /\ result = RecognizedText(1) /\ editableText = RecognizedText(1)

\* And the preview of the second upload replaced by that of the first.
C16_StalePreview ==
    /\ mode = "home" /\ Len(hf) = 2 /\ Quiescent
    /\ image = hf[2].file
    /\ preview \in PreviewsOf(1) /\ preview \notin PreviewsOf(2)

----------------------------------------------------------------------------
(* The end of a performOCR call (SpecHome) *)

\* The promise of the performOCR call of invocation r has settled.
OcrSettled(r) == ocr[r].pc \in {"returned", "caught"}

\* No other performOCR call has been made.
OnlyCall(r) == \A q \in DOMAIN ocr : q # r => ocr[q].pc = "notcalled"

\* The part of C17 about the success path: a call that returned has status
\* 'completed' (as long as it is the only call), result and confidence from
\* the recognition data, and its worker terminated.
C17_SuccessPathClean ==
    \A r \in DOMAIN ocr :
        (mode = "home" /\ ocr[r].pc = "returned") =>
            /\ ocr[r].worker = "terminated"
            /\ OnlyCall(r) =>
                  /\ status = "completed"
                  /\ [text |-> result, confidence |-> confidence] \in RecOutcomes(r)

\* C17: once the promise of a performOCR call has settled, status is
\* 'completed', with result and confidence from the recognition data, or
\* 'error', with result null, never 'initializing' or 'recognizing'; and the
\* worker the call created has been terminated, after a success and after a
\* failure alike (nothing acts on a call once it has settled, so a worker
\* still running then is never terminated).
C17_FinishesCleanly ==
    /\ C17_SuccessPathClean
    /\ \A r \in DOMAIN ocr :
          (mode = "home" /\ OcrSettled(r)) =>
              /\ ocr[r].worker # "running"
              /\ OnlyCall(r) =>
                    /\ status \in {"completed", "error"}
                    /\ status = "error" => result = Null

\* The run that departs from C17: worker.recognize rejected, the call ended
\* in its catch block with status 'error', and its worker is still running
\* with no step left that would terminate it.
C17_WorkerLeftRunning ==
    \E r \in DOMAIN ocr :
        /\ mode = "home" /\ OnlyCall(r)
        /\ ocr[r].pc = "caught" /\ ocr[r].worker = "running"
        /\ status = "error" /\ result = Null
        /\ ~ENABLED OcrTerminated(r)

====
